---- MODULE Spec2Model ----
(***************************************************************************)
(* A model of bostonbot.py: the polling loop of the __main__ block, the    *)
(* retry wrapper retry_operation, the cycle body main_logic with the       *)
(* find-or-create upsert of the status comment, the MBTA alert formatter   *)
(* get_mbta_delays and the moderation sweep.                               *)
(*                                                                         *)
(* Text is modelled as a sequence of tokens: characters for the service    *)
(* effect of an alert (lower() and the substring test are computed on      *)
(* them), words for a post title, fields for a comment body.               *)
(*                                                                         *)
(* Every call to an external service (requests, PRAW) either returns or    *)
(* raises an exception of one of the classes of ExcClasses, all of them    *)
(* subclasses of Exception.                                                *)
(***************************************************************************)
EXTENDS Integers, Sequences, FiniteSets, TLC

VARIABLES
  pc,                \* position of the process
  operation,         \* the callable handed to retry_operation
  retries,           \* retry_operation's parameter max_retries
  attempt,           \* iterations of retry_operation's for loop started so far
  trace,             \* the current retry_operation call: outcomes of operation(), sleeps
  result,            \* what retry_operation returned last
  exitStatus,        \* the process's exit status, NoExit while it runs
  raised,            \* <<step, class>> of the exception raised in the current invocation
  hot,               \* the subreddit's hot listing, in listing order
  comments,          \* comments[i]: the comment bodies of post i, in listing order
  mbta_delays_text,  \* main_logic's local
  weather_text,      \* main_logic's local
  comment_text,      \* main_logic's local
  existing_comment,  \* main_logic's local: <<post, comment>> or <<>> for None
  lastUpsert,        \* what the post-or-edit step of the current cycle did
  modqueue,          \* the moderation queue, in listing order
  modlog,            \* the "removecomment" moderation log, most recent first
  spam,              \* fullnames removed as spam
  input,             \* the arguments of the function under test (function specifications)
  output             \* its result

vars == <<pc, operation, retries, attempt, trace, result, exitStatus, raised, hot,
          comments, mbta_delays_text, weather_text, comment_text, existing_comment,
          lastUpsert, modqueue, modlog, spam, input, output>>

retryVars == <<operation, retries, attempt, trace, result, exitStatus>>
threadVars == <<hot, comments>>
localVars == <<mbta_delays_text, weather_text, comment_text, existing_comment>>
modVars == <<modqueue, modlog, spam>>
ioVars == <<input, output>>

(***************************************************************************)
(* Program constants.                                                      *)
(***************************************************************************)
max_retries == 100
RetryDelay == 60
CycleDelay == 300
HotLimit == 10
ModlogLimit == 10
ModqueueLimit == 25
HTTP_OK == 200
min_severity == 1

(***************************************************************************)
(* Bounds of the model.                                                    *)
(***************************************************************************)
HotLen == 11            \* posts in the hot listing
MaxUserComments == 1    \* comments other users add to a thread
MaxStamp == 1           \* distinct clock readings
MaxRetriesArg == 4      \* largest max_retries handed to retry_operation
MaxAlerts == 2          \* alerts in an MBTA response
MaxSeverity == 2        \* largest severity of an alert
QueueLen == 26          \* items in the moderation queue
LogLen == 11            \* entries in the moderation log

(***************************************************************************)
(* Text helpers.                                                           *)
(***************************************************************************)
Min(a, b) == IF a < b THEN a ELSE b

\* needle in hay (Python's substring test), on token sequences
Contains(hay, needle) ==
  \E i \in 0..(Len(hay) - Len(needle)) :
    \A j \in 1..Len(needle) : hay[i + j] = needle[j]

UpperCase == <<"A", "C", "D", "E", "G", "H", "L", "N", "S", "Y">>
LowerCase == <<"a", "c", "d", "e", "g", "h", "l", "n", "s", "y">>

\* str.lower() of one character
LowerChar(c) ==
  IF \E k \in 1..Len(UpperCase) : UpperCase[k] = c
  THEN LowerCase[CHOOSE k \in 1..Len(UpperCase) : UpperCase[k] = c]
  ELSE c

\* str.lower()
Lower(s) == [k \in 1..Len(s) |-> LowerChar(s[k])]

(***************************************************************************)
(* Exceptions: the classes the calls raise, and the except clauses.        *)
(***************************************************************************)
HttpErrors == {"RequestException", "KeyError"}
PlatformErrors == {"PRAWException", "PrawcoreException"}
ExcClasses == HttpErrors \cup PlatformErrors

Parent(c) ==
  CASE c \in ExcClasses -> "Exception"
    [] c = "SystemExit" -> "BaseException"
    [] OTHER -> "BaseException"

IsInstance_exact(c, base) == c = base
\* isinstance(e, base), as an except clause decides it
IsInstance(c, base) == base \in {c, Parent(c), Parent(Parent(c))}

EditCatches(c) == IsInstance(c, "PRAWException")
MainLogicCatches(c) == IsInstance(c, "Exception")
RetryCatches(c) == IsInstance(c, "Exception")
OrchestratorCatches(c) == IsInstance(c, "Exception")

\* exit(): SystemExit(None), which the interpreter turns into status 0
ExitCode == 0
NoExit == 0 - 1

(***************************************************************************)
(* get_mbta_delays.  A response is [status_code, data]; an alert is        *)
(* [header, service_effect, severity, timeframe], its service effect a     *)
(* sequence of characters.  The returned text is [head, blocks]: the       *)
(* literal it starts with and one block per alert added to it.             *)
(***************************************************************************)
CHANGE == <<"c", "h", "a", "n", "g", "e">>

NoDelaysText == [head |-> "No current delays on the MBTA.", blocks |-> <<>>]
FetchFailedText == [head |-> "Failed to fetch data. Please try again later.", blocks |-> <<>>]
DelaysHead == "# Current delays on the MBTA:\n\n"

\* f"**{service_effect}** - {timeframe}\n\nCause: {header}\n\n"
Block(alert) ==
  [service_effect |-> alert.service_effect, timeframe |-> alert.timeframe,
   header |-> alert.header]

Included_strict(alert, min_sev) ==
  /\ alert.severity > min_sev
  /\ ~Contains(Lower(alert.service_effect), CHANGE)
\* the filter of the loop body
Included(alert, min_sev) ==
  /\ alert.severity >= min_sev
  /\ ~Contains(Lower(alert.service_effect), CHANGE)

RECURSIVE FormatAlerts(_, _)
\* the for loop over data["data"]
FormatAlerts(alerts, min_sev) ==
  IF alerts = <<>>
  THEN <<>>
  ELSE (IF Included(Head(alerts), min_sev) THEN <<Block(Head(alerts))>> ELSE <<>>)
       \o FormatAlerts(Tail(alerts), min_sev)

get_mbta_delays(response, min_sev) ==
  IF response.status_code = HTTP_OK
  THEN IF response.data # <<>>
       THEN [head |-> DelaysHead, blocks |-> FormatAlerts(response.data, min_sev)]
       ELSE NoDelaysText
  ELSE FetchFailedText

(***************************************************************************)
(* get_weather, abstracted to its two kinds of result.                     *)
(***************************************************************************)
WeatherTexts ==
  {"### Daily Weather Forecast for Today in Boston ###",
   "Failed to fetch weather data. Please try again later."}

(***************************************************************************)
(* The thread locator and the comment upsert.  A post is [stickied,        *)
(* title], the title a sequence of words.  A comment body is a sequence of *)
(* fields [kind, text].                                                    *)
(***************************************************************************)
TitleMarker == <<"Weekly", "Discussion", "Thread">>
marker == [kind |-> "marker", text |-> "### Boston Status Update ###"]
UserBody == <<[kind |-> "user", text |-> "hello"]>>
None == <<>>

\* post.stickied and "Weekly Discussion Thread" in post.title
IsWeeklySticky(post) == post.stickied /\ Contains(post.title, TitleMarker)

BodyHasMarker_equal(body) == body = <<marker>>
\* marker in comment.body
BodyHasMarker(body) == Contains(body, <<marker>>)

\* the comment_text of line 248
Compose(stamp, weather, mbta) ==
  <<marker, [kind |-> "stamp", text |-> stamp], [kind |-> "weather", text |-> weather],
    [kind |-> "mbta", text |-> mbta]>>

\* the first match of the nested loops over subreddit.hot(limit=None) and the
\* comments of each matching post, or None
check_comment_in_stickied_thread(listing, cmts) ==
  LET found == UNION {{<<i, j>> : j \in {k \in 1..Len(cmts[i]) : BodyHasMarker(cmts[i][k])}} :
                        i \in {k \in 1..Len(listing) : IsWeeklySticky(listing[k])}}
  IN IF found = {}
     THEN None
     ELSE CHOOSE ij \in found :
            \A kl \in found : ij[1] < kl[1] \/ (ij[1] = kl[1] /\ ij[2] <= kl[2])

FirstSticky_anyTitle(listing) ==
  LET first == SubSeq(listing, 1, Min(HotLimit, Len(listing)))
      hits == {i \in 1..Len(first) : first[i].stickied}
  IN IF hits = {} THEN 0 ELSE CHOOSE i \in hits : \A k \in hits : i <= k
\* the post the loop over subreddit.hot(limit=10) replies to, 0 if it finds none
FirstSticky(listing) ==
  LET first == SubSeq(listing, 1, Min(HotLimit, Len(listing)))
      hits == {i \in 1..Len(first) : IsWeeklySticky(first[i])}
  IN IF hits = {} THEN 0 ELSE CHOOSE i \in hits : \A k \in hits : i <= k

(***************************************************************************)
(* The moderation sweep.  A queue item is [fullname, is_comment]; a log    *)
(* entry is [target_fullname, mod].  faults says which calls raise:        *)
(* list (the modqueue listing), lookup (the items whose log lookup         *)
(* raises), remove (the item whose removal raises, 0 for none), cls (the   *)
(* class raised).                                                          *)
(***************************************************************************)
is_probably_crowd_control_anyMod(item, log, lookupRaises) ==
  IF lookupRaises
  THEN FALSE
  ELSE \E k \in 1..Min(ModlogLimit, Len(log)) : log[k].target_fullname = item.fullname
is_probably_crowd_control(item, log, lookupRaises) ==
  IF lookupRaises
  THEN FALSE
  ELSE \E k \in 1..Min(ModlogLimit, Len(log)) :
         log[k].target_fullname = item.fullname /\ log[k].mod = "reddit"

RECURSIVE SweepItems(_, _, _, _)
\* the for loop over the queue items; acc is [spam, flagged_count, raised]
SweepItems(items, log, faults, acc) ==
  IF items = <<>>
  THEN acc
  ELSE LET item == Head(items)
       IN IF /\ item.is_comment
             /\ is_probably_crowd_control(item, log, item.fullname \in faults.lookup)
          THEN IF item.fullname = faults.remove
               THEN [acc EXCEPT !.raised = faults.cls]
               ELSE SweepItems(Tail(items), log, faults,
                               [acc EXCEPT !.spam = @ \cup {item.fullname},
                                           !.flagged_count = @ + 1])
          ELSE SweepItems(Tail(items), log, faults, acc)

monitor_modqueue_for_crowd_control(queue, log, faults) ==
  IF faults.list
  THEN [spam |-> {}, flagged_count |-> 0, raised |-> faults.cls]
  ELSE SweepItems(SubSeq(queue, 1, Min(ModqueueLimit, Len(queue))), log, faults,
                  [spam |-> {}, flagged_count |-> 0, raised |-> "none"])

\* the queue after the items of s were removed
Without(queue, s) == SelectSeq(queue, LAMBDA item : item.fullname \notin s)

\* the items the sweep looks up and removes are the comments
CommentNames(queue) == {queue[k].fullname : k \in {n \in 1..Len(queue) : queue[n].is_comment}}

SweepFaults(queue) ==
  [list : BOOLEAN, lookup : SUBSET CommentNames(queue),
   remove : CommentNames(queue) \cup {0}, cls : PlatformErrors]

(***************************************************************************)
(* retry_operation and the while loop of the __main__ block.               *)
(***************************************************************************)
\* where operation() starts
Entry(op) == IF op = "main_logic" THEN "mbta" ELSE "stub"

Ok(v) == [ev |-> "ok", secs |-> 0, val |-> v]
Raise == [ev |-> "raise", secs |-> 0, val |-> "None"]
Slept(secs) == [ev |-> "sleep", secs |-> secs, val |-> "None"]

\* operation() returned v (c = "none") or raised an exception of class c: what
\* retry_operation and the try statement around its call do with it
AfterOperation(c, v) ==
  IF c = "none"
  THEN [pc |-> "sleep", trace |-> Append(trace, Ok(v)), result |-> v]
  ELSE IF RetryCatches(c)
  THEN [pc |-> "retry_for", trace |-> trace \o <<Raise, Slept(RetryDelay)>>,
        result |-> result]
  ELSE IF OrchestratorCatches(c)
  THEN [pc |-> "sleep", trace |-> Append(trace, Raise), result |-> "None"]
  ELSE [pc |-> "crashed", trace |-> Append(trace, Raise), result |-> result]

\* line 275: the call of retry_operation
EnterRetry ==
  /\ pc = "loop"
  /\ pc' = "retry_for"
  /\ attempt' = 0
  /\ trace' = <<>>
  /\ UNCHANGED <<operation, retries, result, exitStatus, raised, threadVars, localVars,
                 lastUpsert, modVars, ioVars>>

RetryFor_offByOne ==
  /\ pc = "retry_for"
  /\ IF attempt < retries + 1
     THEN /\ attempt' = attempt + 1
          /\ pc' = Entry(operation)
          /\ exitStatus' = exitStatus
     ELSE /\ attempt' = attempt
          /\ pc' = IF OrchestratorCatches("SystemExit") THEN "sleep" ELSE "exited"
          /\ exitStatus' = IF OrchestratorCatches("SystemExit") THEN exitStatus ELSE ExitCode
  /\ raised' = <<>>
  /\ lastUpsert' = "none"
  /\ UNCHANGED <<operation, retries, trace, result, threadVars, localVars, modVars, ioVars>>
\* lines 29-31 and 37-39: the next iteration of the for loop, or its else clause
RetryFor ==
  /\ pc = "retry_for"
  /\ IF attempt < retries
     THEN /\ attempt' = attempt + 1
          /\ pc' = Entry(operation)
          /\ exitStatus' = exitStatus
     ELSE /\ attempt' = attempt
          /\ pc' = IF OrchestratorCatches("SystemExit") THEN "sleep" ELSE "exited"
          /\ exitStatus' = IF OrchestratorCatches("SystemExit") THEN exitStatus ELSE ExitCode
  /\ raised' = <<>>
  /\ lastUpsert' = "none"
  /\ UNCHANGED <<operation, retries, trace, result, threadVars, localVars, modVars, ioVars>>

\* line 280: time.sleep(300), then the next iteration of while True
Sleep300 ==
  /\ pc = "sleep"
  /\ pc' = "loop"
  /\ trace' = Append(trace, Slept(CycleDelay))
  /\ raised' = <<>>
  /\ lastUpsert' = "none"
  /\ UNCHANGED <<operation, retries, attempt, result, exitStatus, threadVars, localVars,
                 modVars, ioVars>>

(***************************************************************************)
(* main_logic.                                                             *)
(***************************************************************************)
NoLocals ==
  /\ mbta_delays_text' = None
  /\ weather_text' = ""
  /\ comment_text' = None
  /\ existing_comment' = None

\* main_logic is left: it returned None (c = "none") or let c through
LeaveMainLogic(c) ==
  LET r == AfterOperation(c, "None")
  IN /\ pc' = r.pc
     /\ trace' = r.trace
     /\ result' = r.result
     /\ NoLocals
     /\ UNCHANGED <<operation, retries, attempt, exitStatus>>

\* a step of main_logic's try block raises c: lines 270-271
RaiseInMainLogic(step, c) ==
  /\ raised' = <<step, c>>
  /\ LeaveMainLogic(IF MainLogicCatches(c) THEN "none" ELSE c)

\* what the MBTA API answers in a cycle
CycleResponses ==
  {[status_code |-> 500, data |-> <<>>],
   [status_code |-> HTTP_OK, data |-> <<>>],
   [status_code |-> HTTP_OK,
    data |-> <<[header |-> "h1", service_effect |-> <<"D", "e", "l", "a", "y">>,
                severity |-> 1, timeframe |-> "t1"]>>]}

\* line 238
FetchMbta ==
  /\ pc = "mbta"
  /\ \/ /\ \E response \in CycleResponses :
             mbta_delays_text' = get_mbta_delays(response, min_severity)
        /\ pc' = "weather"
        /\ UNCHANGED <<retryVars, raised, weather_text, comment_text, existing_comment>>
     \/ \E c \in HttpErrors : RaiseInMainLogic("mbta", c)
  /\ UNCHANGED <<threadVars, lastUpsert, modVars, ioVars>>

\* line 241
FetchWeather ==
  /\ pc = "weather"
  /\ \/ /\ weather_text' \in WeatherTexts
        /\ pc' = "check"
        /\ UNCHANGED <<retryVars, raised, mbta_delays_text, comment_text, existing_comment>>
     \/ \E c \in HttpErrors : RaiseInMainLogic("weather", c)
  /\ UNCHANGED <<threadVars, lastUpsert, modVars, ioVars>>

\* lines 243-254: compose the comment, look for the existing one
CheckExisting ==
  /\ pc = "check"
  /\ \/ /\ \E stamp \in 1..MaxStamp :
             comment_text' = Compose(ToString(stamp), weather_text, mbta_delays_text)
        /\ existing_comment' = check_comment_in_stickied_thread(hot, comments)
        /\ pc' = IF existing_comment' = None THEN "post" ELSE "edit"
        /\ UNCHANGED <<retryVars, raised, mbta_delays_text, weather_text>>
     \/ \E c \in PlatformErrors : RaiseInMainLogic("check", c)
  /\ UNCHANGED <<threadVars, lastUpsert, modVars, ioVars>>

\* lines 255-257: post_comment_in_daily_discussion, whose except clause ends it
\* without the reply when the listing or the reply raises
Post ==
  /\ pc = "post"
  /\ LET target == FirstSticky(hot)
     IN \/ /\ target # 0
           /\ comments' = [comments EXCEPT ![target] = Append(@, comment_text)]
           /\ lastUpsert' = "posted"
        \/ /\ target = 0
           /\ comments' = comments
           /\ lastUpsert' = "no_sticky"
        \/ /\ \E c \in PlatformErrors : IsInstance(c, "Exception")
           /\ comments' = comments
           /\ lastUpsert' = "post_error"
  /\ pc' = "sweep"
  /\ UNCHANGED <<retryVars, raised, hot, localVars, modVars, ioVars>>

\* lines 259-264: edit the comment found
Edit ==
  /\ pc = "edit"
  /\ \/ /\ comments' = [comments EXCEPT ![existing_comment[1]][existing_comment[2]] =
                                           comment_text]
        /\ lastUpsert' = "edited"
        /\ pc' = "sweep"
        /\ UNCHANGED <<retryVars, raised, localVars>>
     \/ /\ \E c \in PlatformErrors :
             IF EditCatches(c)
             THEN /\ pc' = "sweep"
                  /\ UNCHANGED <<retryVars, raised, localVars>>
             ELSE RaiseInMainLogic("edit", c)
        /\ lastUpsert' = "edit_error"
        /\ comments' = comments
  /\ UNCHANGED <<hot, modVars, ioVars>>

\* lines 266-268: the moderation sweep, the last step of main_logic
Sweep ==
  /\ pc = "sweep"
  /\ \E faults \in SweepFaults(modqueue) :
       LET r == monitor_modqueue_for_crowd_control(modqueue, modlog, faults)
       IN /\ spam' = spam \cup r.spam
          /\ modqueue' = Without(modqueue, r.spam)
          /\ IF r.raised = "none"
             THEN raised' = raised /\ LeaveMainLogic("none")
             ELSE RaiseInMainLogic("sweep", r.raised)
  /\ UNCHANGED <<threadVars, lastUpsert, modlog, ioVars>>

(***************************************************************************)
(* The environment: another user comments in a thread.                     *)
(***************************************************************************)
UserComments ==
  {<<i, j>> \in (1..Len(hot)) \X (1..MaxUserComments + 2) :
     j <= Len(comments[i]) /\ comments[i][j] = UserBody}

UserComment ==
  /\ Cardinality(UserComments) < MaxUserComments
  /\ \E i \in 1..Len(hot) :
       /\ IsWeeklySticky(hot[i])
       /\ comments' = [comments EXCEPT ![i] = Append(@, UserBody)]
  /\ UNCHANGED <<pc, retryVars, raised, hot, localVars, lastUpsert, modVars, ioVars>>

(***************************************************************************)
(* The bot.                                                                *)
(***************************************************************************)
Filler == [stickied |-> FALSE, title |-> <<"Daily", "Discussion">>]
Titles == {<<"Weekly", "Discussion", "Thread", "Nov", "2">>, <<"Daily", "Discussion">>}
Posts == [stickied : BOOLEAN, title : Titles]
HotPositions == {1, HotLimit, HotLen}

Init ==
  /\ pc = "loop"
  /\ operation = "main_logic"
  /\ retries = max_retries
  /\ attempt = 0
  /\ trace = <<>>
  /\ result = "None"
  /\ exitStatus = NoExit
  /\ raised = <<>>
  /\ \E p1, p2 \in HotPositions : \E k1, k2 \in Posts :
       /\ p1 < p2
       /\ hot = [i \in 1..HotLen |-> IF i = p1 THEN k1 ELSE IF i = p2 THEN k2 ELSE Filler]
  /\ comments = [i \in 1..HotLen |-> <<>>]
  /\ mbta_delays_text = None
  /\ weather_text = ""
  /\ comment_text = None
  /\ existing_comment = None
  /\ lastUpsert = "none"
  /\ modqueue = <<[fullname |-> 1, is_comment |-> TRUE], [fullname |-> 2, is_comment |-> TRUE]>>
  /\ modlog = <<[target_fullname |-> 1, mod |-> "reddit"],
                [target_fullname |-> 2, mod |-> "AutoModerator"]>>
  /\ spam = {}
  /\ input = None
  /\ output = None

BotStep ==
  \/ EnterRetry
  \/ RetryFor
  \/ FetchMbta
  \/ FetchWeather
  \/ CheckExisting
  \/ Post
  \/ Edit
  \/ Sweep
  \/ Sleep300

Next == BotStep \/ UserComment

Spec == Init /\ [][Next]_vars

\* every call returns or raises, and every sleep ends
FairSpec == Spec /\ WF_vars(BotStep)

(***************************************************************************)
(* retry_operation on an arbitrary operation: a stub that returns a value  *)
(* or raises on each call, under the same loop and the same try statement. *)
(***************************************************************************)
StubResults == {"r1", "r2"}

\* line 31: operation()
Stub ==
  /\ pc = "stub"
  /\ \E c \in ExcClasses \cup {"none"} :
       \E v \in (IF c = "none" THEN StubResults ELSE {"None"}) :
         LET r == AfterOperation(c, v)
         IN /\ pc' = r.pc
            /\ trace' = r.trace
            /\ result' = r.result
            /\ raised' = IF c = "none" THEN <<>> ELSE <<"stub", c>>
  /\ UNCHANGED <<operation, retries, attempt, exitStatus, threadVars, localVars, lastUpsert,
                 modVars, ioVars>>

\* the variables a function specification leaves alone
NoBot ==
  /\ attempt = 0
  /\ trace = <<>>
  /\ result = "None"
  /\ exitStatus = NoExit
  /\ raised = <<>>
  /\ hot = <<>>
  /\ comments = <<>>
  /\ mbta_delays_text = None
  /\ weather_text = ""
  /\ comment_text = None
  /\ existing_comment = None
  /\ lastUpsert = "none"

RetryInit ==
  /\ pc = "loop"
  /\ operation = "stub"
  /\ retries \in 0..MaxRetriesArg
  /\ NoBot
  /\ modqueue = <<>>
  /\ modlog = <<>>
  /\ spam = {}
  /\ input = None
  /\ output = None

RetryNext == EnterRetry \/ RetryFor \/ Stub \/ Sleep300

RetrySpec == RetryInit /\ [][RetryNext]_vars

(***************************************************************************)
(* get_mbta_delays on every response of the bounds.                        *)
(***************************************************************************)
Effects ==
  {<<"D", "e", "l", "a", "y">>,
   <<"C", "h", "a", "n", "g", "e">>,
   <<"C", "H", "A", "N", "G", "E", "S">>,
   <<"a", " ", "c", "h", "a", "n", "g", "e">>,
   <<"C", "h", "a", "n", "c", "e">>}

Alerts ==
  [header : {"h1"}, service_effect : Effects, severity : 0..MaxSeverity, timeframe : {"t1"}]

AlertLists == UNION {[1..n -> Alerts] : n \in 0..MaxAlerts}

MbtaInit ==
  /\ pc = "call"
  /\ operation = "get_mbta_delays"
  /\ retries = 0
  /\ NoBot
  /\ modqueue = <<>>
  /\ modlog = <<>>
  /\ spam = {}
  /\ \E status \in {HTTP_OK, 500} : \E data \in AlertLists : \E min_sev \in 1..MaxSeverity :
       input = [response |-> [status_code |-> status, data |-> data], min_severity |-> min_sev]
  /\ output = None

\* lines 42-71
CallMbta ==
  /\ pc = "call"
  /\ operation = "get_mbta_delays"
  /\ output' = get_mbta_delays(input.response, input.min_severity)
  /\ pc' = "returned"
  /\ UNCHANGED <<retryVars, raised, threadVars, localVars, lastUpsert, modVars, input>>

MbtaSpec == MbtaInit /\ [][CallMbta]_vars

(***************************************************************************)
(* monitor_modqueue_for_crowd_control on every queue and log of the        *)
(* bounds: up to two comments among submissions, up to two entries about   *)
(* them among entries about other comments.                                *)
(***************************************************************************)
QueuePositions == {1, ModqueueLimit, QueueLen}
LogPositions == {1, ModlogLimit, LogLen}
Moderators == {"reddit", "AutoModerator"}

SweepInit ==
  /\ pc = "call"
  /\ operation = "monitor_modqueue_for_crowd_control"
  /\ retries = 0
  /\ NoBot
  /\ \E p1, p2 \in QueuePositions : \E c1, c2 \in BOOLEAN :
       /\ p1 < p2
       /\ modqueue = [i \in 1..QueueLen |->
                        [fullname |-> i,
                         is_comment |-> IF i = p1 THEN c1 ELSE IF i = p2 THEN c2 ELSE FALSE]]
       /\ \E q1, q2 \in LogPositions :
            \E e1, e2 \in [target_fullname : {p1, p2}, mod : Moderators] :
              /\ q1 < q2
              /\ modlog = [k \in 1..LogLen |->
                             IF k = q1 THEN e1
                             ELSE IF k = q2 THEN e2
                             ELSE [target_fullname |-> 0, mod |-> "reddit"]]
  /\ spam = {}
  /\ input = None
  /\ output = None

\* lines 205-213
CallSweep ==
  /\ pc = "call"
  /\ operation = "monitor_modqueue_for_crowd_control"
  /\ \E faults \in SweepFaults(modqueue) :
       LET r == monitor_modqueue_for_crowd_control(modqueue, modlog, faults)
       IN /\ spam' = spam \cup r.spam
          /\ modqueue' = Without(modqueue, r.spam)
          /\ input' = [queue |-> modqueue, faults |-> faults]
          /\ output' = r
  /\ pc' = "returned"
  /\ UNCHANGED <<retryVars, raised, threadVars, localVars, lastUpsert, modlog>>

SweepSpec == SweepInit /\ [][CallSweep]_vars

(***************************************************************************)
(* The claims.                                                             *)
(***************************************************************************)
\* a body with the marker among its fields
HasMarkerField(body) == \E k \in 1..Len(body) : body[k] = marker

\* a title with the three words of the title marker in a row
WeeklyTitle(title) ==
  \E k \in 1..Len(title) - 2 :
    title[k] = "Weekly" /\ title[k + 1] = "Discussion" /\ title[k + 2] = "Thread"

PinnedWeekly(i) == hot[i].stickied /\ WeeklyTitle(hot[i].title)

MarkerComments(cmts, i) == {j \in 1..Len(cmts[i]) : HasMarkerField(cmts[i][j])}

\* C1: a thread never holds two comments with the marker: a cycle posts only when
\* no pinned weekly thread holds one; a post whose calls succeed, with a pinned
\* weekly thread among the first 10 hot posts, adds exactly one comment, which
\* carries the marker; and a cycle that finds one edits that very comment and adds
\* none.
C1_UpsertIdempotent ==
  /\ [](/\ \A i \in 1..Len(hot) : Cardinality(MarkerComments(comments, i)) <= 1
        /\ pc = "post" =>
             \A i \in 1..Len(hot) : PinnedWeekly(i) => MarkerComments(comments, i) = {}
        /\ pc = "edit" =>
             /\ existing_comment # None
             /\ PinnedWeekly(existing_comment[1])
             /\ existing_comment[2] \in MarkerComments(comments, existing_comment[1]))
  /\ [][/\ (/\ pc = "post"
            /\ pc' = "sweep"
            /\ lastUpsert' # "post_error"
            /\ \E i \in 1..Len(hot) : i <= HotLimit /\ PinnedWeekly(i)) => lastUpsert' = "posted"
        /\ (pc = "post" /\ lastUpsert' = "posted") =>
             \E i \in 1..Len(hot) :
               /\ PinnedWeekly(i)
               /\ comments' = [comments EXCEPT ![i] = Append(@, comment_text)]
               /\ Cardinality(MarkerComments(comments', i)) = 1
        /\ (pc = "edit" /\ pc' # "edit") =>
             /\ \A i \in 1..Len(hot) : Len(comments'[i]) = Len(comments[i])
             /\ \A i \in 1..Len(hot) : MarkerComments(comments', i) = MarkerComments(comments, i)
             /\ lastUpsert' = "edited" =>
                  comments'[existing_comment[1]][existing_comment[2]] = comment_text]_vars

\* C1's case: a later cycle edited the one status comment of a thread
C1_Witness ==
  /\ pc = "sweep"
  /\ lastUpsert = "edited"
  /\ \E i \in 1..Len(hot) : Cardinality(MarkerComments(comments, i)) = 1 /\ Len(comments[i]) = 2

\* C2: when a step of main_logic raises, retry_operation sleeps the fixed delay
\* and goes on to its next attempt at the cycle body.
C2_RaisingCycleIsRetried ==
  [][(raised = <<>> /\ raised' # <<>>) =>
       /\ pc' = "retry_for"
       /\ trace' = trace \o <<Raise, Slept(RetryDelay)>>]_vars

\* the trace of k failed attempts, each followed by the fixed delay
FailedAttempts(k) == [i \in 1..2 * k |-> IF i % 2 = 1 THEN Raise ELSE Slept(RetryDelay)]

\* C3: the process exits after exactly max_retries failed calls of the operation,
\* each followed by the 60 second sleep; when retry_operation returns, the
\* operation was called k <= max_retries times, failed k - 1 times with the sleep
\* after each, and its k-th result is what is returned.
C3_RetryAttempts ==
  /\ pc = "exited" => attempt = retries /\ trace = FailedAttempts(retries)
  /\ pc = "sleep" =>
       /\ attempt \in 1..retries
       /\ trace = FailedAttempts(attempt - 1) \o <<Ok(result)>>
       /\ result \in StubResults

\* C3's case: every one of several attempts failed
C3_Witness == pc = "exited" /\ retries >= 2 /\ trace = FailedAttempts(retries)

\* C4: when the attempts are used up, every one of them failed, the process exits,
\* the exit is not caught by the try statement around the call, and the exit status
\* is not zero.
C4_ExitsNonZero ==
  [][(pc = "retry_for" /\ attempt >= retries /\ trace = FailedAttempts(retries)
        /\ retries >= 1)
       => (pc' = "exited" /\ exitStatus' > 0)]_vars

HasChange(text) ==
  \E i \in 0..Len(text) - 6 :
    /\ text[i + 1] \in {"c", "C"}
    /\ text[i + 2] \in {"h", "H"}
    /\ text[i + 3] \in {"a", "A"}
    /\ text[i + 4] \in {"n", "N"}
    /\ text[i + 5] \in {"g", "G"}
    /\ text[i + 6] \in {"e", "E"}

\* the alerts of the response that qualify, by position
Qualifying == 
  {i \in 1..Len(input.response.data) :
     /\ input.response.data[i].severity >= input.min_severity
     /\ ~HasChange(input.response.data[i].service_effect)}

\* C6: on a successful response the blocks of the text are those of the qualifying
\* alerts, all of them and no other, in the order of the response.
C6_IncludedIffQualifying ==
  (pc = "returned" /\ input.response.status_code = HTTP_OK) =>
    \E f \in [1..Len(output.blocks) -> Qualifying] :
      /\ \A i \in Qualifying : \E k \in 1..Len(output.blocks) : f[k] = i
      /\ \A k, l \in 1..Len(output.blocks) : k < l => f[k] < f[l]
      /\ \A k \in 1..Len(output.blocks) : output.blocks[k] = Block(input.response.data[f[k]])

\* C6's case: of two alerts the second alone qualifies
C6_Witness ==
  /\ pc = "returned"
  /\ input.response.status_code = HTTP_OK
  /\ Len(input.response.data) = 2
  /\ Qualifying = {2}
  /\ output.blocks = <<Block(input.response.data[2])>>

\* C7: on a successful response with no qualifying alert the text is exactly
\* "No current delays on the MBTA."
C7_NoQualifyingIsNoDelays ==
  (pc = "returned" /\ input.response.status_code = HTTP_OK /\ Qualifying = {}) =>
    output = [head |-> "No current delays on the MBTA.", blocks |-> <<>>]

\* the comments among the first 25 queue items whose log lookup succeeded and
\* that an entry among the 10 most recent names as removed by "reddit"
CrowdControlled ==
  {input.queue[i].fullname :
     i \in {n \in 1..Len(input.queue) :
              /\ n <= ModqueueLimit
              /\ input.queue[n].is_comment
              /\ input.queue[n].fullname \notin input.faults.lookup
              /\ \E k \in 1..Len(modlog) :
                   /\ k <= ModlogLimit
                   /\ modlog[k] = [target_fullname |-> input.queue[n].fullname,
                                   mod |-> "reddit"]}}

\* C8: a sweep marks no other item than these comments, leaves every other item
\* in the queue, and a sweep that runs to its end has marked every one of them.
C8_SpamIffCrowdControl ==
  pc = "returned" =>
    /\ spam \subseteq CrowdControlled
    /\ modqueue = SelectSeq(input.queue, LAMBDA item : item.fullname \notin spam)
    /\ output.raised = "none" =>
         spam = CrowdControlled /\ output.flagged_count = Cardinality(CrowdControlled)

\* C8's case: the lookup of one comment failed, and the sweep went on to mark a
\* later one
C8_Witness ==
  /\ pc = "returned"
  /\ output.raised = "none"
  /\ \E a \in input.faults.lookup : \E b \in spam : a < b

\* C9: the post step ends in the sweep without an exception; it adds no comment
\* when none of the first 10 hot posts is a pinned weekly thread, and otherwise at
\* most the composed comment, to the first of them.
C9_PostOnlyOnFirstSticky ==
  [][(pc = "post" /\ pc' # "post") =>
       LET firsts == {i \in 1..Len(hot) : i <= HotLimit /\ PinnedWeekly(i)}
       IN /\ pc' = "sweep"
          /\ raised' = raised
          /\ firsts = {} => comments' = comments /\ lastUpsert' # "posted"
          /\ firsts # {} =>
               LET first == CHOOSE i \in firsts : \A k \in firsts : i <= k
               IN /\ \A i \in 1..Len(hot) : i # first => comments'[i] = comments[i]
                  /\ comments'[first] \in {comments[first], Append(comments[first], comment_text)}
                  /\ lastUpsert' = "posted" => comments'[first] # comments[first]]_vars

\* C9's case: among the first 10 hot posts one is pinned and one is a weekly
\* thread, but none is both, and the post step added nothing
C9_Witness ==
  /\ pc = "sweep"
  /\ lastUpsert = "no_sticky"
  /\ \E i, k \in 1..HotLimit :
       /\ hot[i].stickied /\ ~WeeklyTitle(hot[i].title)
       /\ ~hot[k].stickied /\ WeeklyTitle(hot[k].title)
  /\ \A i \in 1..Len(hot) : comments[i] = <<>>

\* C10: an edit that fails, with whatever class of error, still goes on to the
\* moderation sweep.
C10_EditErrorReachesSweep ==
  [][(pc = "edit" /\ lastUpsert' = "edit_error") => pc' = "sweep"]_vars

====
